---- MODULE Spec2Model ----
(***************************************************************************)
(* Paper Toss: the game session (game.js, class PaperTossGame) and its     *)
(* physics engine (physics.js, createPhysicsEngine).                       *)
(*                                                                         *)
(* Numbers.  The program computes in IEEE doubles.  Here every length and  *)
(* velocity of the simulation is an integer number of hundredths of a      *)
(* pixel (per tick), and every product with a decimal factor is rounded to *)
(* the nearest hundredth (RDiv).  Pointer positions are whole pixels, as   *)
(* the browser delivers them.  Math.random() is a draw in thousandths from *)
(* the set Random.  Date.now() is read only as the time since              *)
(* captureStartTime, which the model keeps in captureElapsed.              *)
(* Rendering (GameUI, render, paperTrail, fireworks, rotation) changes no  *)
(* state any guard reads and is left out.                                  *)
(***************************************************************************)
EXTENDS Integers, Naturals, Sequences, FiniteSets, TLC

\* null: no projectile, no drag point
Null == [null |-> TRUE]

Abs(a) == IF a < 0 THEN -a ELSE a

Min(a, b) == IF a < b THEN a ELSE b

Max(a, b) == IF a > b THEN a ELSE b

\* a / b rounded to the nearest integer (b > 0)
RDiv(a, b) == (2 * a + b) \div (2 * b)

RECURSIVE SqrtSearch(_, _, _)
SqrtSearch(n, lo, hi) ==
  IF lo >= hi THEN lo
  ELSE LET mid == (lo + hi + 1) \div 2
       IN IF mid * mid <= n THEN SqrtSearch(n, mid, hi) ELSE SqrtSearch(n, lo, mid - 1)

\* Math.sqrt on a non-negative integer, rounded down
ISqrt(n) == SqrtSearch(n, 0, Min(n, 46340))

(***************************************************************************)
(* Bounds of the model                                                     *)
(***************************************************************************)
\* options.maxThrows is drawn from 0..MaxThrowsOption
MaxThrowsOption == 2

\* a projectile in flight meets a window resize or a restart only during its first
\* MaxResizeTick ticks (a restart also during the capture animation)
MaxResizeTick == 1

\* the resize listeners registered on the window are counted up to MaxListeners
MaxListeners == 2

\* Math.random() draws, in thousandths
Random == {0, 500}

\* the Math.random() draws of the lane choice in placeBinInLane: lane A and lane C
LaneDraws == {0, 999}

\* canvas.getBoundingClientRect(): the sizes the canvas can have, in pixels
Rects == {[width |-> 400, height |-> 250]}

\* requestAnimationFrame handles
FrameIds == 1 .. 3

\* time between two animation frames, in ms: a normal frame, or a stalled tab
FrameDelays == {16, 500}

(***************************************************************************)
(* physics.js: configuration                                               *)
(***************************************************************************)
gravity == 30

friction == 99

bounceFactor == 35

maxThrowSpeed == 3600

\* config.powerToSpeed
powerToSpeed(level) == IF level = 1 THEN 1200 ELSE IF level = 2 THEN 2000 ELSE 3000

\* baseSpeed without POWER_MULT
baseSpeedNoMultiplier(level) == powerToSpeed(level)

\* config.powerToSpeed[powerLevel_clamped] * POWER_MULT, POWER_MULT = 1.2
baseSpeed(level) == (powerToSpeed(level) * 12) \div 10

\* game.js: options
binWidth == 5800

binHeight == 7200

paperRadius == 1400

openingWidth == RDiv(binWidth * 8, 10)

captureDuration == 500

(***************************************************************************)
(* physics.js: the engine                                                  *)
(***************************************************************************)
\* setWind(speed), speed in hundredths
setWind(speed) == [enabled |-> speed # 0, speed |-> speed]

\* randomizeWind(maxSpeed): speed = (Math.random() - 0.5) * 2 * maxSpeed
randomizeWind(maxSpeed, r) == setWind(RDiv((r - 500) * 2 * maxSpeed, 1000))

\* updateProjectile(projectile, deltaTime = 1); wind.gustiness is always 0
updateProjectile(p, wind) ==
  LET vy1 == p.vy + gravity
      vx1 == IF wind.enabled THEN p.vx + RDiv(wind.speed * 15, 1000) ELSE p.vx
      vx2 == RDiv(vx1 * friction, 100)
      vy2 == RDiv(vy1 * friction, 100)
  IN [p EXCEPT !.vx = vx2, !.vy = vy2, !.x = p.x + vx2, !.y = p.y + vy2]

\* dirX * baseSpeed, with dirX = d / dragDistance; dist10 is the distance in tenths of a pixel
Component(d, dist10, speed) == RDiv(d * speed * 10, dist10)

\* the drag vector of calculateThrowVelocity without the inversion
dragDirectionNoInvert(start, end, target, paperStart) ==
  [dx |-> end.x - start.x, dy |-> end.y - start.y]

\* the drag vector inverted when the pointer was pulled down, whatever the target
dragDirectionPullDown(start, end, target, paperStart) ==
  LET dx0 == end.x - start.x
      dy0 == end.y - start.y
      backward == dy0 > 0
  IN [dx |-> IF backward THEN -dx0 ELSE dx0, dy |-> IF backward THEN -dy0 ELSE dy0]

\* calculateThrowVelocity: the drag vector, inverted when it points backward relative
\* to the direction from paperStart to target (the sign of dx * forwardUnitX + dy * forwardUnitY)
dragDirection(start, end, target, paperStart) ==
  LET dx0 == end.x - start.x
      dy0 == end.y - start.y
      forwardX == target.x - paperStart.x
      forwardY == target.y - paperStart.y
      backward == dx0 * forwardX + dy0 * forwardY < 0
  IN [dx |-> IF backward THEN -dx0 ELSE dx0, dy |-> IF backward THEN -dy0 ELSE dy0]

\* calculateThrowVelocity(start, end, time, target, paperStart, powerLevel):
\* start and end in pixels, target and paperStart in hundredths
calculateThrowVelocity(start, end, target, paperStart, powerLevel) ==
  LET dir == dragDirection(start, end, target, paperStart)
      d2 == dir.dx * dir.dx + dir.dy * dir.dy
      dist10 == ISqrt(d2 * 100)
      level == Max(1, Min(3, IF powerLevel = 0 THEN 1 ELSE powerLevel))
      vx == Component(dir.dx, dist10, baseSpeed(level))
      vy == Component(dir.dy, dist10, baseSpeed(level))
  IN IF d2 < 15 * 15 THEN [vx |-> 0, vy |-> 0]
     ELSE [vx |-> Max(-maxThrowSpeed, Min(maxThrowSpeed, vx)),
           vy |-> Max(-3600, Min(1200, vy))]

\* circleRectCollision(circle, rect): the closest point of rect is nearer than the radius
circleRectCollision(c, rect) ==
  LET closestX == Max(rect.x, Min(c.x, rect.x + rect.width))
      closestY == Max(rect.y, Min(c.y, rect.y + rect.height))
      dx == c.x - closestX
      dy == c.y - closestY
  IN /\ Abs(dx) < c.radius
     /\ Abs(dy) < c.radius
     /\ dx * dx + dy * dy < c.radius * c.radius

rimThickness == 800

\* checkBinCollision: the four rectangles, in the order they are tested
BinRims(bin) ==
  LET side == (bin.width - bin.openingWidth) \div 2
      openingRight == bin.x + side + bin.openingWidth
  IN << [name |-> "leftRim", x |-> bin.x, y |-> bin.y, width |-> side, height |-> rimThickness],
        [name |-> "rightRim", x |-> openingRight, y |-> bin.y, width |-> side, height |-> rimThickness],
        [name |-> "leftWall", x |-> bin.x, y |-> bin.y, width |-> rimThickness, height |-> bin.height],
        [name |-> "rightWall", x |-> bin.x + bin.width - rimThickness, y |-> bin.y,
         width |-> rimThickness, height |-> bin.height] >>

\* a bounce that reflects the vertical velocity of a hit on a rim bar
BounceReflect(p, name) ==
  CASE name = "leftRim" ->
         [p EXCEPT !.vy = -RDiv(p.vy * bounceFactor, 100),
                   !.vx = -RDiv(Abs(p.vx) * bounceFactor, 100) - 100]
    [] name = "rightRim" ->
         [p EXCEPT !.vy = -RDiv(p.vy * bounceFactor, 100),
                   !.vx = RDiv(Abs(p.vx) * bounceFactor, 100) + 100]
    [] OTHER -> [p EXCEPT !.vx = -RDiv(p.vx * bounceFactor, 100)]

\* a bounce whose push away from a rim bar is 3 px per tick
BounceStrongPush(p, name) ==
  CASE name = "leftRim" ->
         [p EXCEPT !.vy = -RDiv(Abs(p.vy) * bounceFactor, 100),
                   !.vx = -RDiv(Abs(p.vx) * bounceFactor, 100) - 300]
    [] name = "rightRim" ->
         [p EXCEPT !.vy = -RDiv(Abs(p.vy) * bounceFactor, 100),
                   !.vx = RDiv(Abs(p.vx) * bounceFactor, 100) + 300]
    [] OTHER -> [p EXCEPT !.vx = -RDiv(p.vx * bounceFactor, 100)]

\* the velocity after a bounce off the rim or wall named
Bounce(p, name) ==
  CASE name = "leftRim" ->
         [p EXCEPT !.vy = -RDiv(Abs(p.vy) * bounceFactor, 100),
                   !.vx = -RDiv(Abs(p.vx) * bounceFactor, 100) - 100]
    [] name = "rightRim" ->
         [p EXCEPT !.vy = -RDiv(Abs(p.vy) * bounceFactor, 100),
                   !.vx = RDiv(Abs(p.vx) * bounceFactor, 100) + 100]
    [] OTHER -> [p EXCEPT !.vx = -RDiv(p.vx * bounceFactor, 100)]

\* checkBinCollision(projectile, bin): the first rectangle hit, and the projectile after it
checkBinCollision(p, bin) ==
  LET rims == BinRims(bin)
      hits == {i \in 1 .. 4 : circleRectCollision(p, rims[i])}
      first == CHOOSE i \in hits : \A j \in hits : i <= j
  IN IF hits = {} THEN [hit |-> FALSE, rim |-> "none", p |-> p]
     ELSE [hit |-> TRUE, rim |-> rims[first].name, p |-> Bounce(p, rims[first].name)]

\* checkGroundCollision(projectile, bin, groundY, bounds); r is the Math.random() draw
checkGroundCollision(p, groundY, r) ==
  IF p.y + p.radius >= groundY
  THEN LET vy1 == -RDiv(Abs(p.vy) * bounceFactor, 100)
           vx1 == RDiv(p.vx * 75, 100) + RDiv((r - 500) * 30, 1000)
           stopped == vx1 * vx1 + vy1 * vy1 < 120 * 120
       IN [collided |-> TRUE, stopped |-> stopped,
           p |-> [p EXCEPT !.y = groundY - p.radius,
                           !.vx = IF stopped THEN 0 ELSE vx1,
                           !.vy = IF stopped THEN 0 ELSE vy1]]
  ELSE [collided |-> FALSE, stopped |-> FALSE, p |-> p]

\* isOutOfBounds with the top of the canvas as a bound too
isOutOfBoundsTop(p, width) == p.x < -3000 \/ p.x > width + 3000 \/ p.y < 0

\* isOutOfBounds(projectile, bounds), margin 30
isOutOfBounds(p, width) == p.x < -3000 \/ p.x > width + 3000

(***************************************************************************)
(* game.js: the session                                                    *)
(***************************************************************************)
VARIABLES
  options,           \* this.options: maxThrows, enableWind
  score,             \* state.score
  throwsRemaining,   \* state.throwsRemaining
  isPlaying,         \* state.isPlaying
  isGameOver,        \* state.isGameOver
  isDragging,        \* state.isDragging
  dragStart,         \* state.dragStart: a point in pixels, or Null
  dragEnd,           \* state.dragEnd
  powerLevel,        \* state.powerLevel
  paperCaptured,     \* state.paperCaptured
  captureElapsed,    \* Date.now() - state.captureStartTime, in ms, up to captureDuration
  paper,             \* this.paper: [x, y, vx, vy, radius, isFlying], or Null
  prevPaperY,        \* this.prevPaperY
  scoredThisThrow,   \* this.scoredThisThrow
  validEntry,        \* this.validEntry
  bin,               \* this.bin
  width,             \* this.width, in pixels
  height,            \* this.height, in pixels
  wind,              \* the engine's wind state
  animationFrameId,  \* this.animationFrameId, 0 for null
  pendingFrames,     \* the requestAnimationFrame callbacks not yet run or cancelled
  resizeListeners,   \* the number of resize listeners setupCanvas has registered on the
                     \* window, counted up to MaxListeners
  onScoreChange,     \* this.onScoreChange is set (main.js sets it after init)
  offerTimers,       \* the setTimeout callbacks of endGame not yet run, each with the
                     \* score the round ended with (history)
  scoreChanges,      \* history: the arguments of the onScoreChange calls of the last operation
  offer,             \* history: the showOfferModal call of the last operation, or Null
  throwCall,         \* a call of calculateThrowVelocity: its arguments and, once it has
                     \* returned, its result; Null in a session
  op,                \* history: the operation that ran last
  branch,            \* history: the resolution branches the last gameLoop body took
  throwScores,       \* history: the number of handleScore runs since the last launch
  flightTicks,       \* history: the number of gameLoop bodies run on the current projectile,
                     \* counted up to MaxResizeTick + 1
  wasAbove           \* history: the current projectile has been strictly above the rim plane
                     \* (y < bin.y) at its launch or after a physics step

vars == << options, score, throwsRemaining, isPlaying, isGameOver, isDragging, dragStart,
           dragEnd, powerLevel, paperCaptured, captureElapsed, paper, prevPaperY,
           scoredThisThrow, validEntry, bin, width, height, wind, animationFrameId,
           pendingFrames, onScoreChange, offerTimers, scoreChanges, offer, throwCall, op,
           branch,
           throwScores, flightTicks, wasAbove, resizeListeners >>

\* the session as one value, for the methods below
St ==
  [options |-> options, score |-> score, throwsRemaining |-> throwsRemaining,
   isPlaying |-> isPlaying, isGameOver |-> isGameOver, isDragging |-> isDragging,
   dragStart |-> dragStart, dragEnd |-> dragEnd, powerLevel |-> powerLevel,
   paperCaptured |-> paperCaptured, captureElapsed |-> captureElapsed, paper |-> paper,
   prevPaperY |-> prevPaperY, scoredThisThrow |-> scoredThisThrow, validEntry |-> validEntry,
   bin |-> bin, width |-> width, height |-> height, wind |-> wind,
   animationFrameId |-> animationFrameId, pendingFrames |-> pendingFrames,
   onScoreChange |-> onScoreChange, offerTimers |-> offerTimers,
   scoreChanges |-> scoreChanges, offer |-> offer, throwCall |-> throwCall,
   op |-> op, branch |-> branch, throwScores |-> throwScores, flightTicks |-> flightTicks,
   wasAbove |-> wasAbove, resizeListeners |-> resizeListeners]

\* values the program never reads again are not kept: prevPaperY is written at every
\* launch before it is read, captureStartTime at every score
Forget(s) ==
  [s EXCEPT !.prevPaperY = IF s.paper = Null THEN 0 ELSE @,
            !.flightTicks = IF s.paper = Null THEN 0 ELSE @,
            !.wasAbove = IF s.paper = Null /\ s.branch \cap {"crossing", "rimEntry"} = {}
                         THEN FALSE ELSE @,
            !.captureElapsed = IF s.paperCaptured /\ s.paper # Null THEN @ ELSE 0]

\* the session is s
Is(s0) ==
  LET s == Forget(s0)
  IN /\ options = s.options
     /\ score = s.score
     /\ throwsRemaining = s.throwsRemaining
     /\ isPlaying = s.isPlaying
     /\ isGameOver = s.isGameOver
     /\ isDragging = s.isDragging
     /\ dragStart = s.dragStart
     /\ dragEnd = s.dragEnd
     /\ powerLevel = s.powerLevel
     /\ paperCaptured = s.paperCaptured
     /\ captureElapsed = s.captureElapsed
     /\ paper = s.paper
     /\ prevPaperY = s.prevPaperY
     /\ scoredThisThrow = s.scoredThisThrow
     /\ validEntry = s.validEntry
     /\ bin = s.bin
     /\ width = s.width
     /\ height = s.height
     /\ wind = s.wind
     /\ animationFrameId = s.animationFrameId
     /\ pendingFrames = s.pendingFrames
     /\ onScoreChange = s.onScoreChange
     /\ offerTimers = s.offerTimers
     /\ scoreChanges = s.scoreChanges
     /\ offer = s.offer
     /\ throwCall = s.throwCall
     /\ op = s.op
     /\ branch = s.branch
     /\ throwScores = s.throwScores
     /\ flightTicks = s.flightTicks
     /\ wasAbove = s.wasAbove
     /\ resizeListeners = s.resizeListeners

\* the session becomes s
Becomes(s0) ==
  LET s == Forget(s0)
  IN /\ options' = s.options
     /\ score' = s.score
     /\ throwsRemaining' = s.throwsRemaining
     /\ isPlaying' = s.isPlaying
     /\ isGameOver' = s.isGameOver
     /\ isDragging' = s.isDragging
     /\ dragStart' = s.dragStart
     /\ dragEnd' = s.dragEnd
     /\ powerLevel' = s.powerLevel
     /\ paperCaptured' = s.paperCaptured
     /\ captureElapsed' = s.captureElapsed
     /\ paper' = s.paper
     /\ prevPaperY' = s.prevPaperY
     /\ scoredThisThrow' = s.scoredThisThrow
     /\ validEntry' = s.validEntry
     /\ bin' = s.bin
     /\ width' = s.width
     /\ height' = s.height
     /\ wind' = s.wind
     /\ animationFrameId' = s.animationFrameId
     /\ pendingFrames' = s.pendingFrames
     /\ onScoreChange' = s.onScoreChange
     /\ offerTimers' = s.offerTimers
     /\ scoreChanges' = s.scoreChanges
     /\ offer' = s.offer
     /\ throwCall' = s.throwCall
     /\ op' = s.op
     /\ branch' = s.branch
     /\ throwScores' = s.throwScores
     /\ flightTicks' = s.flightTicks
     /\ wasAbove' = s.wasAbove
     /\ resizeListeners' = s.resizeListeners

\* setupCanvas: this.groundY = this.height * 0.72
groundY(s) == s.height * 72

\* setupCanvas: this.lanes
lanes(h) ==
  [A |-> [centerY |-> h * 28, minY |-> h * 25, maxY |-> h * 32],
   B |-> [centerY |-> h * 38, minY |-> h * 34, maxY |-> h * 42],
   C |-> [centerY |-> h * 48, minY |-> h * 44, maxY |-> h * 50]]

laneKeys == << "A", "B", "C" >>

\* setupCanvas: this.restingPaper
restingPaper(s) == [x |-> s.width * 30, y |-> s.height * 80, radius |-> paperRadius]

\* placeBinInLane() without the fallback to lane.centerY for a lane shorter than the margins
placeBinInLaneNoFallback(s, r1, r2, r3) ==
  LET randomLane == laneKeys[((r1 * 3) \div 1000) + 1]
      lane == lanes(s.height)[randomLane]
      safetyMarginY == binHeight \div 2 + 1000
      clampedMinY == lane.minY + safetyMarginY
      clampedMaxY == lane.maxY - safetyMarginY
      randomY == clampedMinY + RDiv(r2 * (clampedMaxY - clampedMinY), 1000)
      centerX == s.width * 50
      jitterRange == s.width * 8
      randomX == centerX + RDiv((r3 - 500) * 2 * jitterRange, 1000)
      clampedX == Max(binWidth \div 2, Min(s.width * 100 - binWidth \div 2, randomX))
  IN [s EXCEPT !.bin = [x |-> clampedX - binWidth \div 2, y |-> randomY, width |-> binWidth,
                        height |-> binHeight, openingWidth |-> openingWidth,
                        lane |-> randomLane]]

\* placeBinInLane(); r1, r2, r3 are its Math.random() draws
placeBinInLane(s, r1, r2, r3) ==
  LET randomLane == laneKeys[((r1 * 3) \div 1000) + 1]
      lane == lanes(s.height)[randomLane]
      safetyMarginY == binHeight \div 2 + 1000
      clampedMinY == lane.minY + safetyMarginY
      clampedMaxY == lane.maxY - safetyMarginY
      randomY == IF clampedMinY >= clampedMaxY THEN lane.centerY
                 ELSE clampedMinY + RDiv(r2 * (clampedMaxY - clampedMinY), 1000)
      centerX == s.width * 50
      jitterRange == s.width * 8
      randomX == centerX + RDiv((r3 - 500) * 2 * jitterRange, 1000)
      clampedX == Max(binWidth \div 2, Min(s.width * 100 - binWidth \div 2, randomX))
  IN [s EXCEPT !.bin = [x |-> clampedX - binWidth \div 2, y |-> randomY, width |-> binWidth,
                        height |-> binHeight, openingWidth |-> openingWidth,
                        lane |-> randomLane]]

\* setupCanvas() with the resize listener attached on the first run only
setupCanvasAttachOnce(s, rect, r1, r2, r3) ==
  placeBinInLane([s EXCEPT !.width = rect.width, !.height = rect.height,
                           !.resizeListeners = Min(Max(@, 1), MaxListeners)],
                 r1, r2, r3)

\* setupCanvas(), run by init and by the debounced resize listener; its last statement
\* is window.addEventListener('resize', ...)
setupCanvas(s, rect, r1, r2, r3) ==
  placeBinInLane([s EXCEPT !.width = rect.width, !.height = rect.height,
                           !.resizeListeners = Min(@ + 1, MaxListeners)],
                 r1, r2, r3)

\* the pointer is within tolerance (in pixels) of the resting paper
NearRestingPaper(s, pos, tolerance) ==
  LET dx == pos.x * 100 - restingPaper(s).x
      dy == pos.y * 100 - restingPaper(s).y
      reach == restingPaper(s).radius + tolerance * 100
  IN /\ Abs(dx) <= reach
     /\ Abs(dy) <= reach
     /\ dx * dx + dy * dy <= reach * reach

\* startDrag(pos)
startDrag(s, pos) ==
  [s EXCEPT !.isDragging = TRUE, !.dragStart = pos, !.dragEnd = pos, !.powerLevel = 0,
            !.paper = Null]

\* handleMouseDown(event) without the check of a flying paper
handleMouseDownInFlight(s, pos) ==
  IF ~s.isPlaying \/ s.isDragging THEN s
  ELSE IF NearRestingPaper(s, pos, 30) THEN startDrag(s, pos)
  ELSE s

\* handleMouseDown(event)
handleMouseDown(s, pos) ==
  IF ~s.isPlaying \/ s.isDragging THEN s
  ELSE IF s.paper # Null /\ s.paper.isFlying THEN s
  ELSE IF NearRestingPaper(s, pos, 30) THEN startDrag(s, pos)
  ELSE s

\* handleTouchStart(event)
handleTouchStart(s, pos) ==
  IF ~s.isPlaying \/ s.isDragging THEN s
  ELSE IF s.paper # Null /\ s.paper.isFlying THEN s
  ELSE IF NearRestingPaper(s, pos, 15) THEN startDrag(s, pos)
  ELSE s

\* updateDrag(pos): pull01 = min(dragDistance / maxPullDistance, 1), maxPullDistance = height * 0.5;
\* pull01 < 0.33 as dragDistance^2 * 200^2 < (33 * height)^2
updateDrag(s, pos) ==
  LET dx == s.dragStart.x - pos.x
      dy == s.dragStart.y - pos.y
      d2 == dx * dx + dy * dy
      level == IF d2 * 40000 < (33 * s.height) * (33 * s.height) THEN 1
               ELSE IF d2 * 40000 < (66 * s.height) * (66 * s.height) THEN 2
               ELSE 3
  IN [s EXCEPT !.dragEnd = pos, !.powerLevel = level]

\* handleMouseMove(event), handleTouchMove(event)
handleMove(s, pos) == IF ~s.isDragging THEN s ELSE updateDrag(s, pos)

\* requestAnimationFrame(this.gameLoop) with the handle not stored in animationFrameId
requestAnimationFrameNoHandle(s) ==
  LET id == CHOOSE i \in FrameIds \ s.pendingFrames :
              \A j \in FrameIds \ s.pendingFrames : i <= j
  IN [s EXCEPT !.pendingFrames = @ \cup {id}]

\* requestAnimationFrame(this.gameLoop): a handle no pending callback has
requestAnimationFrame(s) ==
  LET id == CHOOSE i \in FrameIds \ s.pendingFrames :
              \A j \in FrameIds \ s.pendingFrames : i <= j
  IN [s EXCEPT !.animationFrameId = id, !.pendingFrames = @ \cup {id}]

\* handleScore() without the line this.scoredThisThrow = true
handleScoreNoLatch(s) ==
  [s EXCEPT !.score = @ + 1, !.paperCaptured = TRUE, !.captureElapsed = 0,
            !.throwScores = @ + 1,
            !.scoreChanges = IF s.onScoreChange THEN Append(@, s.score + 1) ELSE @]

\* handleScore() with the listener called before the increment
handleScoreNotifyFirst(s) ==
  [s EXCEPT !.score = @ + 1, !.scoredThisThrow = TRUE, !.paperCaptured = TRUE,
            !.captureElapsed = 0, !.throwScores = @ + 1,
            !.scoreChanges = IF s.onScoreChange THEN Append(@, s.score) ELSE @]

\* handleScore()
handleScore(s) ==
  [s EXCEPT !.score = @ + 1, !.scoredThisThrow = TRUE, !.paperCaptured = TRUE,
            !.captureElapsed = 0, !.throwScores = @ + 1,
            !.scoreChanges = IF s.onScoreChange THEN Append(@, s.score + 1) ELSE @]

\* updateCaptureAnimation() without the depth check
updateCaptureAnimationTimed(s) ==
  LET binCenterX == s.bin.x + s.bin.width \div 2
      p == s.paper
      moved == [p EXCEPT !.x = @ + RDiv((binCenterX - p.x) * 15, 100),
                         !.y = @ + 400,
                         !.vx = RDiv(p.vx * 85, 100),
                         !.vy = Min(p.vy, 200)]
  IN IF s.captureElapsed >= captureDuration
     THEN [s EXCEPT !.paper = Null, !.paperCaptured = FALSE, !.branch = @ \cup {"elapsed"}]
     ELSE [s EXCEPT !.paper = moved]

\* updateCaptureAnimation()
updateCaptureAnimation(s) ==
  LET binCenterX == s.bin.x + s.bin.width \div 2
      binBottomY == s.bin.y + s.bin.height
      p == s.paper
      moved == [p EXCEPT !.x = @ + RDiv((binCenterX - p.x) * 15, 100),
                         !.y = @ + 400,
                         !.vx = RDiv(p.vx * 85, 100),
                         !.vy = Min(p.vy, 200)]
  IN IF s.captureElapsed >= captureDuration
     THEN [s EXCEPT !.paper = Null, !.paperCaptured = FALSE, !.branch = @ \cup {"elapsed"}]
     ELSE IF moved.y > binBottomY - 1000
     THEN [s EXCEPT !.paper = Null, !.paperCaptured = FALSE, !.branch = @ \cup {"deep"}]
     ELSE [s EXCEPT !.paper = moved]

\* endGame() without the line this.state.isPlaying = false
endGameStillPlaying(s) ==
  [s EXCEPT !.isGameOver = TRUE, !.offerTimers = @ \cup {[final |-> s.score]}]

\* endGame(): the phase, and setTimeout(() => this.ui.showOfferModal(...), 1500)
endGame(s) ==
  [s EXCEPT !.isPlaying = FALSE, !.isGameOver = TRUE,
            !.offerTimers = @ \cup {[final |-> s.score]}]

\* gameLoop(): the projectile is between the edges of the bin opening
withinOpening(s) ==
  LET binCenterX == s.bin.x + s.bin.width \div 2
      openLeft == binCenterX - s.bin.openingWidth \div 2
      openRight == binCenterX + s.bin.openingWidth \div 2
  IN s.paper.x >= openLeft /\ s.paper.x <= openRight

\* gameLoop(): the test of Condition A, the rim plane was crossed downward on this tick
crossedRim(s) == s.prevPaperY < s.bin.y /\ s.paper.y >= s.bin.y

\* gameLoop(): the test of Condition B, rimBand = 15 and movingDownward = vy > -2
rimBounceEntry(s) ==
  Abs(s.paper.y - s.bin.y) < 1500 /\ withinOpening(s) /\ s.paper.vy > -200

\* the scoring check of gameLoop() without Condition B
CheckScoringCrossingOnly(s) ==
  IF s.scoredThisThrow
  THEN IF crossedRim(s) /\ withinOpening(s) THEN [s EXCEPT !.branch = @ \cup {"latched"}]
       ELSE s
  ELSE IF crossedRim(s) /\ withinOpening(s)
  THEN handleScore([s EXCEPT !.validEntry = TRUE, !.branch = @ \cup {"crossing"}])
  ELSE s

\* the scoring check of gameLoop() with Condition B marking the entry without scoring
CheckScoringEntryMarked(s) ==
  IF s.scoredThisThrow
  THEN IF crossedRim(s) /\ withinOpening(s) THEN [s EXCEPT !.branch = @ \cup {"latched"}]
       ELSE s
  ELSE IF crossedRim(s)
  THEN IF withinOpening(s)
       THEN handleScore([s EXCEPT !.validEntry = TRUE, !.branch = @ \cup {"crossing"}])
       ELSE s
  ELSE IF ~s.validEntry
  THEN IF rimBounceEntry(s)
       THEN [s EXCEPT !.validEntry = TRUE, !.branch = @ \cup {"rimEntry"}]
       ELSE s
  ELSE s

\* gameLoop(): the scoring check; "latched" records a tick on which the latch
\* skipped a check that Condition A would have passed
CheckScoring(s) ==
  IF s.scoredThisThrow
  THEN IF crossedRim(s) /\ withinOpening(s) THEN [s EXCEPT !.branch = @ \cup {"latched"}]
       ELSE s
  ELSE IF crossedRim(s)
  THEN IF withinOpening(s)
       THEN handleScore([s EXCEPT !.validEntry = TRUE, !.branch = @ \cup {"crossing"}])
       ELSE s
  ELSE IF ~s.validEntry
  THEN IF rimBounceEntry(s)
       THEN handleScore([s EXCEPT !.validEntry = TRUE, !.branch = @ \cup {"rimEntry"}])
       ELSE s
  ELSE s

\* the resolution of gameLoop() with the bin collision tested before the capture flag
ResolveBounceFirst(s, r) ==
  LET hit == checkBinCollision(s.paper, s.bin)
      ground == checkGroundCollision(s.paper, groundY(s), r)
  IN IF hit.hit
     THEN [s EXCEPT !.paper = hit.p, !.branch = @ \cup {"bounce", hit.rim}]
     ELSE IF s.paperCaptured
     THEN [updateCaptureAnimation(s) EXCEPT !.branch = @ \cup {"capture"}]
     ELSE IF ground.stopped
     THEN [s EXCEPT !.paper = Null, !.branch = @ \cup {"ground", "rest"}]
     ELSE IF isOutOfBounds(ground.p, s.width * 100)
     THEN [s EXCEPT !.paper = Null, !.branch = @ \cup {"ground", "out"}]
     ELSE [s EXCEPT !.paper = ground.p, !.branch = @ \cup {"ground"}]

\* the resolution of gameLoop() with the ground and bounds checks run after a bounce too
ResolveBounceAndGround(s, r) ==
  LET hit == checkBinCollision(s.paper, s.bin)
      bounced == IF hit.hit THEN [s EXCEPT !.paper = hit.p, !.branch = @ \cup {"bounce", hit.rim}] ELSE s
      ground == checkGroundCollision(bounced.paper, groundY(s), r)
  IN IF s.paperCaptured
     THEN [updateCaptureAnimation(s) EXCEPT !.branch = @ \cup {"capture"}]
     ELSE IF ground.stopped
     THEN [bounced EXCEPT !.paper = Null, !.branch = @ \cup {"ground", "rest"}]
     ELSE IF isOutOfBounds(ground.p, s.width * 100)
     THEN [bounced EXCEPT !.paper = Null, !.branch = @ \cup {"ground", "out"}]
     ELSE [bounced EXCEPT !.paper = ground.p, !.branch = @ \cup {"ground"}]

\* the resolution of gameLoop() with a throw that comes to rest on the ground given back
ResolveRefundRest(s, r) ==
  LET hit == checkBinCollision(s.paper, s.bin)
      ground == checkGroundCollision(s.paper, groundY(s), r)
  IN IF s.paperCaptured
     THEN [updateCaptureAnimation(s) EXCEPT !.branch = @ \cup {"capture"}]
     ELSE IF hit.hit
     THEN [s EXCEPT !.paper = hit.p, !.branch = @ \cup {"bounce", hit.rim}]
     ELSE IF ground.stopped
     THEN [s EXCEPT !.paper = Null, !.throwsRemaining = @ + 1,
                    !.branch = @ \cup {"ground", "rest"}]
     ELSE IF isOutOfBounds(ground.p, s.width * 100)
     THEN [s EXCEPT !.paper = Null, !.branch = @ \cup {"ground", "out"}]
     ELSE [s EXCEPT !.paper = ground.p, !.branch = @ \cup {"ground"}]

\* gameLoop(): capture animation, else rim or wall bounce, else ground and bounds;
\* a bounce is recorded with the name of the rectangle hit
Resolve(s, r) ==
  LET hit == checkBinCollision(s.paper, s.bin)
      ground == checkGroundCollision(s.paper, groundY(s), r)
  IN IF s.paperCaptured
     THEN [updateCaptureAnimation(s) EXCEPT !.branch = @ \cup {"capture"}]
     ELSE IF hit.hit
     THEN [s EXCEPT !.paper = hit.p, !.branch = @ \cup {"bounce", hit.rim}]
     ELSE IF ~s.paperCaptured
     THEN IF ground.stopped
          THEN [s EXCEPT !.paper = Null, !.branch = @ \cup {"ground", "rest"}]
          ELSE IF isOutOfBounds(ground.p, s.width * 100)
          THEN [s EXCEPT !.paper = Null, !.branch = @ \cup {"ground", "out"}]
          ELSE [s EXCEPT !.paper = ground.p, !.branch = @ \cup {"ground"}]
     ELSE s

\* gameLoop() with the game-over check made only after the ground and bounds handling
gameLoopEndOnMiss(s, r) ==
  IF s.paper = Null \/ ~s.paper.isFlying THEN [s EXCEPT !.animationFrameId = 0]
  ELSE LET moved == [s EXCEPT !.paper = updateProjectile(s.paper, s.wind),
                              !.flightTicks = Min(@ + 1, MaxResizeTick + 1),
                              !.wasAbove = @ \/ updateProjectile(s.paper, s.wind).y < s.bin.y,
                              !.branch = @ \cup (IF s.isDragging THEN {"whileDragging"}
                                                 ELSE {})]
           scored == CheckScoring(moved)
           resolved == Resolve([scored EXCEPT !.prevPaperY = scored.paper.y], r)
       IN IF resolved.paper = Null /\ resolved.throwsRemaining <= 0
             /\ "ground" \in resolved.branch
          THEN endGame(resolved)
          ELSE IF resolved.paper # Null /\ resolved.paper.isFlying
          THEN requestAnimationFrame(resolved)
          ELSE [resolved EXCEPT !.animationFrameId = 0]

\* gameLoop() with the game-over check written throwsRemaining < 0
gameLoopLateEnd(s, r) ==
  IF s.paper = Null \/ ~s.paper.isFlying THEN [s EXCEPT !.animationFrameId = 0]
  ELSE LET moved == [s EXCEPT !.paper = updateProjectile(s.paper, s.wind),
                              !.flightTicks = Min(@ + 1, MaxResizeTick + 1),
                              !.wasAbove = @ \/ updateProjectile(s.paper, s.wind).y < s.bin.y,
                              !.branch = @ \cup (IF s.isDragging THEN {"whileDragging"}
                                                 ELSE {})]
           scored == CheckScoring(moved)
           resolved == Resolve([scored EXCEPT !.prevPaperY = scored.paper.y], r)
       IN IF resolved.paper = Null /\ resolved.throwsRemaining < 0 THEN endGame(resolved)
          ELSE IF resolved.paper # Null /\ resolved.paper.isFlying
          THEN requestAnimationFrame(resolved)
          ELSE [resolved EXCEPT !.animationFrameId = 0]

\* gameLoop(); r is the Math.random() draw of checkGroundCollision; "whileDragging" records
\* that the physics step ran with state.isDragging still true
gameLoop(s, r) ==
  IF s.paper = Null \/ ~s.paper.isFlying THEN [s EXCEPT !.animationFrameId = 0]
  ELSE LET moved == [s EXCEPT !.paper = updateProjectile(s.paper, s.wind),
                              !.flightTicks = Min(@ + 1, MaxResizeTick + 1),
                              !.wasAbove = @ \/ updateProjectile(s.paper, s.wind).y < s.bin.y,
                              !.branch = @ \cup (IF s.isDragging THEN {"whileDragging"}
                                                 ELSE {})]
           scored == CheckScoring(moved)
           resolved == Resolve([scored EXCEPT !.prevPaperY = scored.paper.y], r)
       IN IF resolved.paper = Null /\ resolved.throwsRemaining <= 0 THEN endGame(resolved)
          ELSE IF resolved.paper # Null /\ resolved.paper.isFlying
          THEN requestAnimationFrame(resolved)
          ELSE [resolved EXCEPT !.animationFrameId = 0]

\* the launch block of endDrag without the line this.state.throwsRemaining--
launchNoDecrement(s, velocity) ==
  LET rest == restingPaper(s)
  IN [s EXCEPT !.paper = [x |-> rest.x, y |-> rest.y, vx |-> velocity.vx, vy |-> velocity.vy,
                          radius |-> paperRadius, isFlying |-> TRUE],
               !.prevPaperY = rest.y,
               !.scoredThisThrow = FALSE,
               !.validEntry = FALSE,
               !.paperCaptured = FALSE,
               !.throwScores = 0,
               !.flightTicks = 0,
               !.wasAbove = rest.y < s.bin.y,
               !.branch = @ \cup {"launch"}]

\* endDrag(pos): create and launch the paper
launch(s, velocity) ==
  LET rest == restingPaper(s)
  IN [s EXCEPT !.paper = [x |-> rest.x, y |-> rest.y, vx |-> velocity.vx, vy |-> velocity.vy,
                          radius |-> paperRadius, isFlying |-> TRUE],
               !.prevPaperY = rest.y,
               !.scoredThisThrow = FALSE,
               !.validEntry = FALSE,
               !.paperCaptured = FALSE,
               !.throwsRemaining = @ - 1,
               !.throwScores = 0,
               !.flightTicks = 0,
               !.wasAbove = rest.y < s.bin.y,
               !.branch = @ \cup {"launch"}]

\* the caller's guard with a threshold of 10 px
longEnoughTen(start, pos) ==
  LET dx == start.x - pos.x
      dy == start.y - pos.y
  IN dx * dx + dy * dy >= 10 * 10

\* endDrag(pos): the caller's guard, dragDistance >= 15
longEnough(start, pos) ==
  LET dx == start.x - pos.x
      dy == start.y - pos.y
  IN dx * dx + dy * dy >= 15 * 15

\* endDrag(pos) without the line this.state.isDragging = false
endDragKeepDragging(s, pos, r) ==
  LET binTarget == [x |-> s.bin.x + s.bin.width \div 2, y |-> s.bin.y]
      velocity == calculateThrowVelocity(s.dragStart, pos, binTarget, restingPaper(s),
                                         s.powerLevel)
      dx == s.dragStart.x - pos.x
      dy == s.dragStart.y - pos.y
      seen == [s EXCEPT !.branch = @ \cup (IF dx * dx + dy * dy < 225 THEN {"short"} ELSE {})
                                     \cup (IF velocity = [vx |-> 0, vy |-> 0]
                                           THEN {"zeroVelocity"} ELSE {}),
                        !.throwCall = [start |-> s.dragStart, end |-> pos,
                                       target |-> binTarget, paperStart |-> restingPaper(s),
                                       powerLevel |-> s.powerLevel, velocity |-> velocity]]
      launched == launch(seen, velocity)
      thrown == IF longEnough(s.dragStart, pos)
                THEN IF launched.animationFrameId = 0 THEN gameLoop(launched, r) ELSE launched
                ELSE seen
      released == [thrown EXCEPT !.dragStart = Null, !.dragEnd = Null]
  IN IF ~s.isDragging THEN s
     ELSE IF released.animationFrameId = 0 THEN gameLoop(released, r) ELSE released

\* endDrag(pos); throwCall records the call of calculateThrowVelocity,
\* "short" a release less than 15 px from the drag start,
\* "zeroVelocity" that calculateThrowVelocity returned the zero vector
endDrag(s, pos, r) ==
  LET binTarget == [x |-> s.bin.x + s.bin.width \div 2, y |-> s.bin.y]
      velocity == calculateThrowVelocity(s.dragStart, pos, binTarget, restingPaper(s),
                                         s.powerLevel)
      dx == s.dragStart.x - pos.x
      dy == s.dragStart.y - pos.y
      seen == [s EXCEPT !.branch = @ \cup (IF dx * dx + dy * dy < 225 THEN {"short"} ELSE {})
                                     \cup (IF velocity = [vx |-> 0, vy |-> 0]
                                           THEN {"zeroVelocity"} ELSE {}),
                        !.throwCall = [start |-> s.dragStart, end |-> pos,
                                       target |-> binTarget, paperStart |-> restingPaper(s),
                                       powerLevel |-> s.powerLevel, velocity |-> velocity]]
      launched == launch(seen, velocity)
      thrown == IF longEnough(s.dragStart, pos)
                THEN IF launched.animationFrameId = 0 THEN gameLoop(launched, r) ELSE launched
                ELSE seen
      released == [thrown EXCEPT !.isDragging = FALSE, !.dragStart = Null, !.dragEnd = Null]
  IN IF ~s.isDragging THEN s
     ELSE IF released.animationFrameId = 0 THEN gameLoop(released, r) ELSE released

\* handleMouseUp(event), also the mouseleave listener
handleMouseUp(s, pos, r) == IF ~s.isDragging THEN s ELSE endDrag(s, pos, r)

\* handleTouchEnd(event)
handleTouchEnd(s, r) == IF ~s.isDragging THEN s ELSE endDrag(s, s.dragEnd, r)

\* cancelAnimationFrame(id)
cancelAnimationFrame(s, id) == [s EXCEPT !.pendingFrames = @ \ {id}]

\* resetGame() without the line this.state.score = 0
resetGameKeepScore(s, r1, r2, r3) ==
  LET cleared == [s EXCEPT !.throwsRemaining = s.options.maxThrows,
                           !.isPlaying = FALSE, !.isGameOver = FALSE, !.isDragging = FALSE,
                           !.paper = Null,
                           !.scoreChanges = IF s.onScoreChange THEN Append(@, 0) ELSE @]
      placed == placeBinInLane(cleared, r1, r2, r3)
  IN IF placed.animationFrameId # 0
     THEN [cancelAnimationFrame(placed, placed.animationFrameId) EXCEPT !.animationFrameId = 0]
     ELSE placed

\* resetGame() without the final cancelAnimationFrame block
resetGameNoCancel(s, r1, r2, r3) ==
  LET cleared == [s EXCEPT !.score = 0, !.throwsRemaining = s.options.maxThrows,
                           !.isPlaying = FALSE, !.isGameOver = FALSE, !.isDragging = FALSE,
                           !.paper = Null,
                           !.scoreChanges = IF s.onScoreChange THEN Append(@, 0) ELSE @]
  IN placeBinInLane(cleared, r1, r2, r3)

\* resetGame()
resetGame(s, r1, r2, r3) ==
  LET cleared == [s EXCEPT !.score = 0, !.throwsRemaining = s.options.maxThrows,
                           !.isPlaying = FALSE, !.isGameOver = FALSE, !.isDragging = FALSE,
                           !.paper = Null,
                           !.scoreChanges = IF s.onScoreChange THEN Append(@, 0) ELSE @]
      placed == placeBinInLane(cleared, r1, r2, r3)
  IN IF placed.animationFrameId # 0
     THEN [cancelAnimationFrame(placed, placed.animationFrameId) EXCEPT !.animationFrameId = 0]
     ELSE placed

\* this.ui.showOfferModal(score, callback): GameUI defines no showOfferModal, so the
\* call throws a TypeError after its argument has been evaluated and nothing is shown
showOfferModal(arg, final) == [score |-> arg, final |-> final, shown |-> FALSE]

\* the callback endGame() hands to setTimeout; tm is the timer that runs it
offerCallback(s, tm) ==
  [s EXCEPT !.offerTimers = @ \ {tm}, !.offer = showOfferModal(s.score, tm.final)]

\* startGame() without the test of options.enableWind
startGameAlwaysWind(s, r1, r2, r3, rw) ==
  [resetGame(s, r1, r2, r3) EXCEPT !.isPlaying = TRUE, !.wind = randomizeWind(250, rw)]

\* startGame(); rw is the Math.random() draw of randomizeWind(2.5)
startGame(s, r1, r2, r3, rw) ==
  LET reset == [resetGame(s, r1, r2, r3) EXCEPT !.isPlaying = TRUE]
  IN IF reset.options.enableWind THEN [reset EXCEPT !.wind = randomizeWind(250, rw)]
     ELSE reset

(***************************************************************************)
(* The environment: the player, the browser's frames and resizes           *)
(***************************************************************************)
\* where the pointer goes down, in pixels: on the resting paper, and far from it
PressPoints == {[x |-> 120, y |-> 200], [x |-> 300, y |-> 50]}

\* where the pointer moves and goes up: the press point, 10 px and 15 px away from it,
\* a medium pull, and a long pull straight up
DragPoints ==
  {[x |-> 120, y |-> 200], [x |-> 126, y |-> 208], [x |-> 129, y |-> 212],
   [x |-> 150, y |-> 160], [x |-> 121, y |-> 100]}

\* release points of throws aimed at the bin: a long push towards it, a medium one,
\* and a release too close to the press point to launch
AimPoints ==
  {[x |-> 200, y |-> 115], [x |-> 170, y |-> 150], [x |-> 126, y |-> 208]}

\* options.maxThrows: no throws at all, or MaxThrowsOption throws
MaxThrowsOptions == {0, MaxThrowsOption}

EnableWindOptions == {TRUE}

\* placeBinInLane calls Math.random() for the height only in a lane taller than the margins
HeightDraws(h) ==
  IF \E k \in {"A", "B", "C"} :
       lanes(h)[k].minY + binHeight \div 2 + 1000 < lanes(h)[k].maxY - (binHeight \div 2 + 1000)
  THEN Random
  ELSE {0}

\* new PaperTossGame(canvas, options)
constructor(m, w) ==
  [options |-> [maxThrows |-> m, enableWind |-> w],
   score |-> 0, throwsRemaining |-> m, isPlaying |-> FALSE,
   isGameOver |-> FALSE, isDragging |-> FALSE, dragStart |-> Null,
   dragEnd |-> Null, powerLevel |-> 0, paperCaptured |-> FALSE,
   captureElapsed |-> 0, paper |-> Null, prevPaperY |-> 0,
   scoredThisThrow |-> FALSE, validEntry |-> FALSE, bin |-> Null,
   width |-> 0, height |-> 0, wind |-> [enabled |-> FALSE, speed |-> 0],
   animationFrameId |-> 0, pendingFrames |-> {}, onScoreChange |-> FALSE,
   offerTimers |-> {}, scoreChanges |-> << >>, offer |-> Null, throwCall |-> Null,
   op |-> "init",
   branch |-> {}, throwScores |-> 0, flightTicks |-> 0,
   wasAbove |-> FALSE, resizeListeners |-> 0]

\* init(): setupCanvas(); resetGame()
init(s, rect, r1, r2, r3) == resetGame(setupCanvas(s, rect, r1, r2, r3), r1, r2, r3)

\* main.js: new PaperTossGame(canvas, options); init(); onScoreChange = the score display
initPaperToss(m, w, rect, r1, r2, r3) ==
  [init(constructor(m, w), rect, r1, r2, r3) EXCEPT !.onScoreChange = TRUE]

\* the page has set the game up
Init ==
  \E m \in MaxThrowsOptions, w \in EnableWindOptions, rect \in Rects, r1 \in LaneDraws,
     r3 \in Random :
   \E r2 \in HeightDraws(rect.height) :
     Is(initPaperToss(m, w, rect, r1, r2, r3))

\* the time since the last frame is read only by a capture animation
Delays == IF paperCaptured /\ paper # Null THEN FrameDelays ELSE {16}

\* an operation starts with a history of its own
Begin(name) ==
  [St EXCEPT !.op = name, !.branch = {}, !.scoreChanges = << >>, !.offer = Null,
             !.throwCall = Null]

\* the session after the operation named; a handler that returned at once leaves no trace
Done(name, s) == IF s = Begin(name) THEN UNCHANGED vars ELSE Becomes(s)

\* the start and play-again buttons
StartGame ==
  /\ paper = Null \/ flightTicks <= MaxResizeTick \/ paperCaptured
  /\ \E r1 \in LaneDraws, r3, rw \in Random, r2 \in HeightDraws(height) :
       Done("startGame", startGame(Begin("startGame"), r1, r2, r3, rw))

\* the first press of a round comes after the deferred call of the round before,
\* 1500 ms after its end
MouseDown ==
  /\ offerTimers = {}
  /\ \E pos \in PressPoints : Done("press", handleMouseDown(Begin("press"), pos))

TouchStart ==
  /\ offerTimers = {}
  /\ \E pos \in PressPoints : Done("press", handleTouchStart(Begin("press"), pos))

\* the move and release handlers return at once unless a drag is active
MouseMove ==
  /\ isDragging
  /\ \E pos \in DragPoints : Done("move", handleMove(Begin("move"), pos))

TouchMove ==
  /\ isDragging
  /\ \E pos \in DragPoints : Done("move", handleMove(Begin("move"), pos))

MouseUp ==
  /\ isDragging
  /\ \E pos \in DragPoints, r \in Random :
       Done("release", handleMouseUp(Begin("release"), pos, r))

TouchEnd ==
  /\ isDragging
  /\ \E r \in Random : Done("release", handleTouchEnd(Begin("release"), r))

\* checkGroundCollision calls Math.random() only when the projectile has reached the ground
Jitters ==
  IF paper # Null /\ paper.y + paper.radius + Abs(paper.vy) + gravity >= groundY(St)
  THEN Random
  ELSE {500}

\* an animation frame: the browser runs a pending gameLoop callback, dt ms after the last one
Tick ==
  \E id \in pendingFrames, dt \in Delays, r \in Jitters :
    LET s == [Begin("tick") EXCEPT !.pendingFrames = @ \ {id},
                                   !.captureElapsed = Min(captureDuration, @ + dt)]
    IN Becomes(gameLoop(s, r))

\* the debounced resize listener: setupCanvas(); render()
Resize ==
  /\ paper = Null \/ flightTicks <= MaxResizeTick
  /\ \E rect \in Rects, r1 \in LaneDraws, r3 \in Random :
       \E r2 \in HeightDraws(rect.height) :
         Becomes(setupCanvas(Begin("resize"), rect, r1, r2, r3))

\* 1500 ms after endGame(): the deferred call runs
OfferTimer == \E tm \in offerTimers : Becomes(offerCallback(Begin("offer"), tm))

Next ==
  \/ StartGame
  \/ MouseDown
  \/ TouchStart
  \/ MouseMove
  \/ TouchMove
  \/ MouseUp
  \/ TouchEnd
  \/ Tick
  \/ Resize
  \/ OfferTimer

Spec == Init /\ [][Next]_vars

\* a round of MaxThrowsOption throws has been started
RoundStarted ==
  \E rect \in Rects, r1 \in LaneDraws, r3, rw \in Random :
   \E r2 \in HeightDraws(rect.height) :
     Is([startGame(initPaperToss(MaxThrowsOption, TRUE, rect, r1, r2, r3), r1, r2, r3, rw)
           EXCEPT !.op = "startGame"])

\* the player's gestures and the animation frames, without restart and resize
Play ==
  \/ MouseDown
  \/ TouchStart
  \/ MouseMove
  \/ TouchMove
  \/ MouseUp
  \/ TouchEnd
  \/ Tick

\* a requested animation frame is due.  Tick is enabled exactly when a callback is
\* pending, and every Tick step changes the session; the first disjunct, which is no
\* step of Play, states that enabling condition without running gameLoop, so that
\* WF_vars(FrameDue) is WF_vars(Tick) on the behaviours of Play
FrameDue == (pendingFrames # {} /\ Becomes([St EXCEPT !.op = "frame"])) \/ Tick

\* a round that no reset interrupts, in which the browser keeps delivering animation
\* frames: a requested frame is run
FrameSpec == RoundStarted /\ [][Play]_vars /\ WF_vars(FrameDue)

\* the mouse moves to an aim point during a drag
AimMove ==
  /\ isDragging
  /\ \E pos \in AimPoints : Done("move", handleMove(Begin("move"), pos))

\* the mouse button goes up at an aim point
AimUp ==
  /\ isDragging
  /\ \E pos \in AimPoints, r \in Random :
       Done("release", handleMouseUp(Begin("release"), pos, r))

\* a session played with the mouse, with throws aimed at the bin and no resize
AimNext == StartGame \/ MouseDown \/ AimMove \/ AimUp \/ Tick \/ OfferTimer

AimSpec == Init /\ [][AimNext]_vars

\* canvas sizes for the bin placement: narrower than the bin, as wide as the bin, a phone,
\* a desktop window; lanes shorter and taller than the two safety margins
PlaceRects ==
  {[width |-> w, height |-> h] : w \in {50, 58, 400, 1200}, h \in {250, 600, 1400, 2000}}

\* Math.random() draws of placeBinInLane, in thousandths
PlaceDraws == {0, 400, 999}

\* the page has set the game up on a canvas of one of the sizes
PlaceInit ==
  \E rect \in PlaceRects, r1, r2, r3 \in PlaceDraws :
    Is(initPaperToss(MaxThrowsOption, TRUE, rect, r1, r2, r3))

\* the debounced resize listener places the bin again
PlaceResize ==
  \E rect \in PlaceRects, r1, r2, r3 \in PlaceDraws :
    Becomes(setupCanvas(Begin("resize"), rect, r1, r2, r3))

\* placeBinInLane on its own
PlaceSpec == PlaceInit /\ [][PlaceResize]_vars

\* a game of one throw, with wind or without
WindInit ==
  \E w \in BOOLEAN, rect \in Rects, r1 \in LaneDraws, r3 \in Random :
   \E r2 \in HeightDraws(rect.height) :
     Is(initPaperToss(1, w, rect, r1, r2, r3))

WindSpec == WindInit /\ [][Next]_vars

\* the arguments of calculateThrowVelocity: a drag from ThrowStart by these offsets, in
\* pixels: shorter than 15 px, exactly 15 px along an axis and across, and longer
DragOffsets == {-40, -15, -12, -9, 0, 9, 12, 15, 40}

ThrowStart == [x |-> 120, y |-> 200]

\* paperStart, in hundredths: the resting paper of a 400 x 250 canvas
ThrowOrigin == [x |-> 12000, y |-> 20000]

\* target, in hundredths: above to the right, above to the left, straight above,
\* on paperStart itself, and below to the right
ThrowTargets ==
  {[x |-> 20000, y |-> 7000], [x |-> 4000, y |-> 7000], [x |-> 12000, y |-> 7000],
   [x |-> 12000, y |-> 20000], [x |-> 20000, y |-> 24000]}

\* powerLevel: state.powerLevel is 0 before the first move of a session, then 1, 2 or 3
PowerLevels == 0 .. 3

\* a call of calculateThrowVelocity is about to be made
ThrowInit ==
  \E dx, dy \in DragOffsets, target \in ThrowTargets, level \in PowerLevels,
     rect \in Rects :
    Is([initPaperToss(MaxThrowsOption, TRUE, rect, 0, 0, 500) EXCEPT
          !.op = "drag",
          !.throwCall = [start |-> ThrowStart,
                         end |-> [x |-> ThrowStart.x + dx, y |-> ThrowStart.y + dy],
                         target |-> target, paperStart |-> ThrowOrigin,
                         powerLevel |-> level, velocity |-> Null]])

\* the call returns
ThrowVelocity ==
  /\ throwCall # Null
  /\ throwCall.velocity = Null
  /\ Becomes([St EXCEPT
        !.op = "velocity",
        !.throwCall = [throwCall EXCEPT
           !.velocity = calculateThrowVelocity(throwCall.start, throwCall.end,
                          throwCall.target, throwCall.paperStart, throwCall.powerLevel)]])

\* calculateThrowVelocity on its own
ThrowSpec == ThrowInit /\ [][ThrowVelocity]_vars

(***************************************************************************)
(* Properties                                                              *)
(***************************************************************************)
\* the operation that ran last launched a projectile
Launched == op = "release" /\ "launch" \in branch

\* C1: within one throw, from its launch until the projectile is cleared, the score is
\* incremented at most once, however often Condition A and Condition B are satisfiable:
\* handleScore runs at most once between two launches, so that the score of a round
\* never exceeds the number of throws launched in it.
C1_ScoreOncePerThrow ==
  /\ throwScores <= 1
  /\ score <= options.maxThrows - throwsRemaining

\* C1: a tick of a throw that has scored on which the projectile crossed the rim plane
\* within the opening, and only the latch kept Condition A from scoring again
C1_Witness ==
  /\ op = "tick"
  /\ "latched" \in branch
  /\ scoredThisThrow
  /\ throwScores = 1
  /\ score >= 1

\* C2: with maxThrows >= 1, a launch lowers throwsRemaining by exactly 1 in the release
\* that launches, no other operation but a round reset (startGame) changes it, and it
\* is never below 0.
C2_ThrowsRemaining ==
  [][options.maxThrows >= 1 =>
       /\ throwsRemaining' >= 0
       /\ Launched' => throwsRemaining' = throwsRemaining - 1
       /\ throwsRemaining' # throwsRemaining =>
            \/ Launched'
            \/ op' = "startGame" /\ throwsRemaining' = options.maxThrows]_vars

\* C2: the second launch of a round has been resolved: both throws are used, each was
\* paid for at its launch, and the resolving tick left the count alone
C2_Witness ==
  /\ options.maxThrows = MaxThrowsOption
  /\ throwsRemaining = 0
  /\ op = "tick"
  /\ paper = Null
  /\ isGameOver

\* the operation that ran last was a release less than 15 px from the drag start
ShortRelease == op = "release" /\ "short" \in branch

\* C3: a release less than 15 px from the drag start gets the zero vector from
\* calculateThrowVelocity, spawns no projectile, leaves throwsRemaining and score as
\* they were, clears the drag and leaves the session in Ready; a release spawns a
\* projectile exactly when the distance is at least 15, where the mapper's no-throw
\* guard and the caller's guard agree.
C3_ShortDragNoThrow ==
  [][op' = "release" =>
       /\ ("short" \in branch') # ("launch" \in branch')
       /\ ("short" \in branch') = ("zeroVelocity" \in branch')
       /\ ShortRelease' =>
            /\ paper' = Null
            /\ throwsRemaining' = throwsRemaining
            /\ score' = score
            /\ ~isDragging' /\ dragStart' = Null /\ dragEnd' = Null
            /\ isPlaying' /\ ~isGameOver']_vars

\* C3: a drag that was pulled far and came back was released 10 px from its start
C3_Witness ==
  /\ ShortRelease
  /\ powerLevel >= 2
  /\ paper = Null
  /\ throwsRemaining = MaxThrowsOption

\* C4: with maxThrows >= 1, after every completed operation the session is in
\* RoundOver (isGameOver) if and only if throwsRemaining = 0 and there is no
\* projectile, neither in flight nor being captured.
C4_RoundOverIff ==
  options.maxThrows >= 1 => (isGameOver <=> (throwsRemaining = 0 /\ paper = Null))

\* C4: the tick that removed the projectile of the last throw, by a score's capture
\* animation, ended the round
C4_Witness ==
  /\ options.maxThrows >= 1
  /\ op = "tick"
  /\ "capture" \in branch
  /\ paper = Null
  /\ throwsRemaining = 0
  /\ isGameOver
  /\ ~isPlaying

\* the lane placement policy: the bin is in one of the three lanes, its rim between the
\* lane's bounds, its centre within 8 % of the width from the middle, all of it on the canvas
PlacedInLane ==
  /\ bin.lane \in {"A", "B", "C"}
  /\ bin.y >= lanes(height)[bin.lane].minY
  /\ bin.y <= lanes(height)[bin.lane].maxY
  /\ Abs(bin.x + bin.width \div 2 - width * 50) <= width * 8
  /\ bin.x >= 0
  /\ bin.x + bin.width <= width * 100
  /\ bin.width = binWidth /\ bin.height = binHeight /\ bin.openingWidth = openingWidth

\* C5: startGame, in whatever state it is invoked, leaves score = 0, throwsRemaining =
\* maxThrows, no projectile, no active drag, no pending tick, the phase Ready
\* (isPlaying, not isGameOver) and the bin placed by the lane placement policy.
C5_StartGameResets ==
  op = "startGame" =>
    /\ score = 0
    /\ throwsRemaining = options.maxThrows
    /\ paper = Null
    /\ ~isDragging
    /\ pendingFrames = {}
    /\ animationFrameId = 0
    /\ isPlaying
    /\ ~isGameOver
    /\ PlacedInLane

\* C5: startGame was invoked during the capture animation of a throw that had scored
C5_Witness ==
  /\ op = "startGame"
  /\ paperCaptured
  /\ scoredThisThrow
  /\ score = 0
  /\ paper = Null

\* C6: a press, mouse or touch, starts a drag only when the round is playing, no drag is
\* active and no projectile exists, and nothing but a press starts one; so a drag and a
\* projectile never coexist, no launch happens while a projectile is in flight or being
\* captured, and a projectile is replaced by another only through a state without one.
C6_PressGuards ==
  [][/\ (isDragging' /\ (~isDragging \/ op' = "press")) =>
          (op' = "press" /\ isPlaying /\ ~isDragging /\ paper = Null)
     /\ isDragging' => paper' = Null
     /\ Launched' => (paper = Null /\ isDragging)
     /\ (paper # Null /\ paper' # Null /\ op' # "tick") => paper' = paper]_vars

\* C6: a press on the resting paper has started a drag in the second throw of a round
C6_Witness ==
  /\ op = "press"
  /\ isDragging
  /\ isPlaying
  /\ paper = Null
  /\ dragStart \in PressPoints
  /\ throwsRemaining = 1
  /\ options.maxThrows = MaxThrowsOption

\* the resolution branches of a miss: rim or wall bounce, ground check, rest, out of bounds
MissBranches == {"bounce", "ground", "rest", "out"}

\* C7: once a throw has scored, it is not resolved as a miss: on the scoring tick and on
\* every later tick of the throw no ground-rest, out-of-bounds or rim or wall bounce
\* outcome is applied, the score is not taken back, and the projectile is removed only
\* by the completion of the capture animation or by a round reset.
C7_NoMissAfterScore ==
  [][/\ (op' \in {"tick", "release"} /\ scoredThisThrow') =>
          /\ branch' \cap MissBranches = {}
          /\ score' >= score
          /\ (paper # Null /\ paper' = Null) => branch' \cap {"elapsed", "deep"} # {}
     /\ (scoredThisThrow /\ paper # Null) =>
          /\ paperCaptured /\ score >= 1
          /\ paper' = Null => op' \in {"tick", "startGame"}
          /\ op' # "startGame" => score' = score]_vars

\* C7: a tick of the capture animation on which the projectile overlaps a rim or wall of
\* the bin, and is not bounced
C7_Witness ==
  /\ op = "tick"
  /\ scoredThisThrow
  /\ paperCaptured
  /\ paper # Null
  /\ "capture" \in branch
  /\ checkBinCollision(paper, bin).hit

\* C9: RoundOver is terminal until startGame: while isGameOver holds, every press, move,
\* release and tick (and resize) leaves the score, throwsRemaining, the absent
\* projectile, the drag flag and the phase as they are; only startGame leaves RoundOver.
C9_RoundOverTerminal ==
  [][isGameOver =>
       /\ paper = Null /\ ~isDragging /\ ~isPlaying
       /\ op' # "startGame" =>
            /\ isGameOver' /\ ~isPlaying'
            /\ score' = score
            /\ throwsRemaining' = throwsRemaining
            /\ paper' = Null
            /\ ~isDragging'
       /\ op' = "startGame" => (~isGameOver' /\ isPlaying')]_vars

\* C9: a round of MaxThrowsOption throws is over with one score; a press on the resting
\* paper, a move and a release, by mouse or by touch, each return at once
C9_Witness ==
  /\ isGameOver
  /\ ~isPlaying
  /\ score = 1
  /\ throwsRemaining = 0
  /\ options.maxThrows = MaxThrowsOption
  /\ paper = Null
  /\ \A pos \in PressPoints : handleMouseDown(St, pos) = St /\ handleTouchStart(St, pos) = St
  /\ \A pos \in DragPoints : handleMove(St, pos) = St /\ handleMouseUp(St, pos, 0) = St
  /\ handleTouchEnd(St, 0) = St

C10_NoThrowsNoRound == options.maxThrows <= 0 => ~Launched

\* the projectile of this state after the physics update of the next tick
NextPaper == updateProjectile(paper, wind)

\* x lies between the edges of the bin opening, which is centred on the bin
InOpening(x) ==
  /\ 2 * x >= 2 * bin.x + bin.width - bin.openingWidth
  /\ 2 * x <= 2 * bin.x + bin.width + bin.openingWidth

\* Condition A on the next tick: the previous tick's y is strictly above the rim plane,
\* the current y at or below it, and x is within the opening
ConditionA == prevPaperY < bin.y /\ NextPaper.y >= bin.y /\ InOpening(NextPaper.x)

\* Condition B on the next tick: |y - rimY| < 15, x within the opening, and vy > -2
ConditionB ==
  /\ NextPaper.y - bin.y < 1500 /\ bin.y - NextPaper.y < 1500
  /\ InOpening(NextPaper.x)
  /\ NextPaper.vy > -200

\* C11: on a tick of a throw that has not yet scored, a score is recorded if and only
\* if Condition A or Condition B holds of the updated projectile; on a tick where
\* neither holds the score stays as it is.
C11_ScoreIffEntry ==
  [][(op' = "tick" /\ paper # Null /\ ~scoredThisThrow) =>
       /\ (ConditionA \/ ConditionB) => (score' = score + 1 /\ scoredThisThrow')
       /\ ~(ConditionA \/ ConditionB) => (score' = score /\ ~scoredThisThrow')]_vars

\* C11: a tick on which Condition B scored a throw that had not crossed the rim plane
C11_Witness ==
  /\ op = "tick"
  /\ "rimEntry" \in branch
  /\ scoredThisThrow
  /\ throwScores = 1
  /\ score >= 1

\* the three resolution branches of a tick
ResolutionBranches == {"capture", "bounce", "ground"}

\* C12: on every tick at most one of the resolution branches runs: the capture
\* animation, a rim or wall bounce, or the ground and out-of-bounds handling. A tick on
\* which the throw scores or is being captured applies no bounce and no ground check;
\* a tick with a bounce leaves the projectile in place where the physics update put it,
\* even on or below the ground or outside the bounds; the ground branch runs only
\* without a rim or wall contact.
C12_OneResolutionBranch ==
  [][op' \in {"tick", "release"} =>
       /\ Cardinality(branch' \cap ResolutionBranches) <= 1
       /\ branch' \cap {"crossing", "rimEntry", "capture"} # {} =>
            branch' \cap MissBranches = {}
       /\ "bounce" \in branch' => branch' \cap {"ground", "rest", "out", "capture"} = {}
       /\ (op' = "tick" /\ paper # Null) =>
            /\ "bounce" \in branch' =>
                 /\ paper' # Null
                 /\ paper'.x = NextPaper.x /\ paper'.y = NextPaper.y
                 /\ checkBinCollision(NextPaper, bin).hit
            /\ "capture" \in branch' =>
                 \/ paper' = Null
                 \/ paper'.y = NextPaper.y + 400 /\ paper'.vy <= NextPaper.vy
            /\ "ground" \in branch' =>
                 /\ ~checkBinCollision(NextPaper, bin).hit
                 /\ ~paperCaptured']_vars

\* C12: a tick that bounced the projectile off a wall of the bin while it was on or
\* below the ground line, and applied no ground check
C12_Witness ==
  /\ op = "tick"
  /\ "bounce" \in branch
  /\ paper # Null
  /\ paper.y + paper.radius >= groundY(St)

\* the tick that ran last ended the throw as a miss: at rest on the ground, or out of bounds
MissResolved == op \in {"tick", "release"} /\ branch \cap {"rest", "out"} # {}

\* C13: a throw that ends at rest on the ground or out of bounds has not scored; the
\* tick that ends it removes the projectile and leaves the score and throwsRemaining
\* as they are, so the throw stays consumed: it is neither given back nor paid for again.
C13_MissConsumesThrow ==
  [][MissResolved' =>
       /\ op' = "tick"
       /\ paper # Null /\ paper' = Null
       /\ ~scoredThisThrow /\ ~scoredThisThrow' /\ throwScores' = 0
       /\ score' = score
       /\ throwsRemaining' = throwsRemaining
       /\ throwsRemaining' < options.maxThrows]_vars

\* C13: the first throw of a round came to rest on the ground without a score
C13_Witness ==
  /\ op = "tick"
  /\ "rest" \in branch
  /\ paper = Null
  /\ score = 0
  /\ options.maxThrows = MaxThrowsOption
  /\ throwsRemaining = MaxThrowsOption - 1
  /\ isPlaying

\* the operation that ran last recorded a score
Scored == op \in {"tick", "release"} /\ branch \cap {"crossing", "rimEntry"} # {}

\* C14: each scoring event calls the onScoreChange listener exactly once, with the new
\* score; the only other call is the one of a round start (startGame, with 0), so that
\* within a round the listener is called by scoring events only.
C14_ScoreListener ==
  [][/\ Scored' => (score' = score + 1 /\ scoreChanges' = << score' >>)
     /\ scoreChanges' # << >> =>
          \/ Scored'
          \/ op' = "startGame" /\ scoreChanges' = << 0 >> /\ score' = 0
     /\ score' # score => scoreChanges' = << score' >>]_vars

\* C14: the second score of a round has been reported to the listener as 2
C14_Witness ==
  /\ Scored
  /\ op = "tick"
  /\ onScoreChange
  /\ score = 2
  /\ scoreChanges = << 2 >>

\* C15: the deferred offer-modal call of endGame reports the final score of the round
\* that ended, whatever has run between endGame and the call: its score argument is
\* the score the round ended with.
C15_OfferReportsFinalScore == offer # Null => offer.score = offer.final

\* C16: the bin is immutable during a throw: while a projectile exists, no operation
\* that leaves the round running (tick, press, move, release, window resize) changes
\* the bin's position, size, opening width or lane.
C16_BinFixedDuringThrow ==
  [][(paper # Null /\ op' \in {"tick", "press", "move", "release", "resize"}) =>
       bin' = bin]_vars

\* calculateThrowVelocity has returned from a drag of 15 px or more
Returned ==
  /\ throwCall # Null
  /\ throwCall.velocity # Null
  /\ (throwCall.end.x - throwCall.start.x) * (throwCall.end.x - throwCall.start.x)
       + (throwCall.end.y - throwCall.start.y) * (throwCall.end.y - throwCall.start.y) >= 225

\* sqrt(vx^2 + vy^2) of the velocity returned, in hundredths, rounded down
ReturnedSpeed ==
  ISqrt(throwCall.velocity.vx * throwCall.velocity.vx
          + throwCall.velocity.vy * throwCall.velocity.vy)

\* C17 as stated: for power levels 1, 2 and 3 and every drag of 15 px or more the speed
\* of the returned velocity equals the powerToSpeed table value of the level (to the
\* 1 % the drag distance, kept in tenths of a pixel, is exact to).
C17_SpeedEqualsTable ==
  (Returned /\ throwCall.powerLevel \in 1 .. 3) =>
    /\ 100 * ReturnedSpeed <= 101 * powerToSpeed(throwCall.powerLevel)
    /\ 100 * ReturnedSpeed >= 99 * powerToSpeed(throwCall.powerLevel)

\* C17 amended: for power levels 1, 2 and 3 and every drag of 15 px or more the speed of
\* the returned velocity is never more than 1.2 times the powerToSpeed table value of
\* the level, and equals 1.2 times that value whenever the returned vy is below 12,
\* the only clamp that can apply, whatever the direction and length of the drag (to
\* the 1 % the drag distance, kept in tenths of a pixel, is exact to).
C17_SpeedFromTable ==
  (Returned /\ throwCall.powerLevel \in 1 .. 3) =>
    /\ 1000 * ReturnedSpeed <= 1212 * powerToSpeed(throwCall.powerLevel)
    /\ throwCall.velocity.vy < 1200 =>
         1000 * ReturnedSpeed >= 1188 * powerToSpeed(throwCall.powerLevel)

\* C17: a drag of exactly 15 px, up and to the right, thrown at power level 2
C17_Witness ==
  /\ Returned
  /\ throwCall.powerLevel = 2
  /\ throwCall.end.x - throwCall.start.x = 9
  /\ throwCall.end.y - throwCall.start.y = -12
  /\ throwCall.velocity.vx > 0
  /\ throwCall.velocity.vy < 0
  /\ ReturnedSpeed >= 2398

\* C18: every velocity returned has vx within [-maxThrowSpeed, maxThrowSpeed] and vy
\* within a range whose upward limit is tighter than its downward limit: no returned
\* upward speed (-vy, upward being negative y) reaches the largest downward speed 12.
C18_UpwardClampTighter ==
  Returned =>
    /\ throwCall.velocity.vx >= -maxThrowSpeed
    /\ throwCall.velocity.vx <= maxThrowSpeed
    /\ throwCall.velocity.vy <= 1200
    /\ -throwCall.velocity.vy < 1200

\* the arguments of the call: the drag vector and the vector from paperStart to target
DragVector ==
  [dx |-> throwCall.end.x - throwCall.start.x, dy |-> throwCall.end.y - throwCall.start.y]

ForwardVector ==
  [dx |-> throwCall.target.x - throwCall.paperStart.x,
   dy |-> throwCall.target.y - throwCall.paperStart.y]

\* C19: for every drag of 15 px or more and every target and origin, the launch
\* direction does not point backward: the launch vector before the clamp has a
\* non-negative dot product with target - origin, being the drag vector itself for a
\* forward drag and its opposite for a backward drag; the returned velocity has its
\* signs, and unless vy was clamped a non-negative dot product too (to the rounding).
C19_NeverBackward ==
  Returned =>
    LET dir == dragDirection(throwCall.start, throwCall.end, throwCall.target,
                             throwCall.paperStart)
        drag == DragVector
        fwd == ForwardVector
        v == throwCall.velocity
    IN /\ dir.dx * fwd.dx + dir.dy * fwd.dy >= 0
       /\ drag.dx * fwd.dx + drag.dy * fwd.dy >= 0 => dir = drag
       /\ drag.dx * fwd.dx + drag.dy * fwd.dy < 0 => dir = [dx |-> -drag.dx, dy |-> -drag.dy]
       /\ v.vx * dir.dx >= 0 /\ v.vy * dir.dy >= 0
       /\ (v.vx = 0) = (dir.dx = 0) /\ (v.vy = 0) = (dir.dy = 0)
       /\ v.vy < 1200 => v.vx * fwd.dx + v.vy * fwd.dy >= -(Abs(fwd.dx) + Abs(fwd.dy))

\* C19: a drag pulled back, down and away from a target above to the right, was thrown
\* up and to the right
C19_Witness ==
  /\ Returned
  /\ DragVector.dx < 0 /\ DragVector.dy > 0
  /\ ForwardVector.dx > 0 /\ ForwardVector.dy < 0
  /\ throwCall.velocity.vx > 0
  /\ throwCall.velocity.vy < 0

\* x is within the horizontal bounds of the canvas and their margin of 30
WithinMargin(x) == x >= -3000 /\ x <= width * 100 + 3000

\* C20: a projectile is removed as out of bounds only when its x is below -30 or above
\* width + 30: a tick removes a projectile with -30 <= x <= width + 30 only at rest on
\* the ground or at the end of its capture, wherever it is vertically.
C20_OutOfBoundsHorizontalOnly ==
  [][/\ "out" \in branch' =>
          /\ op' = "tick" /\ paper # Null /\ paper' = Null
          /\ ~WithinMargin(NextPaper.x)
     /\ (op' = "tick" /\ paper # Null /\ WithinMargin(NextPaper.x)) =>
          /\ "out" \notin branch'
          /\ paper' = Null => branch' \cap {"rest", "elapsed", "deep"} # {}]_vars

\* C20: the bounds check has run on a projectile that is wholly above the top of the
\* canvas, and has kept it
C20_Witness ==
  /\ op = "tick"
  /\ "ground" \in branch
  /\ paper # Null
  /\ paper.y + paper.radius < 0
  /\ WithinMargin(paper.x)

\* C21: the bin body never straddles the boundary of its lane: its vertical extent,
\* from bin.y to bin.y + bin.height, lies within [lane.minY, lane.maxY].
C21_BinBodyInsideLane ==
  /\ bin.y >= lanes(height)[bin.lane].minY
  /\ bin.y + bin.height <= lanes(height)[bin.lane].maxY

\* a tick of the capture animation of a throw that scored on an earlier tick
CaptureTick == op' = "tick" /\ paper # Null /\ paperCaptured

\* C22 as stated: the capture animation clears the projectile only once the capture
\* duration of 500 ms has elapsed, not earlier.
C22_CaptureLastsDuration ==
  [][(CaptureTick /\ paper' = Null) => "elapsed" \in branch']_vars

\* C22 amended: the capture animation clears the projectile on the first tick on which
\* either 500 ms have elapsed since the score or the projectile has sunk to less than
\* 10 px above the bottom of the bin, whichever comes first, and on no other tick; the
\* session is then in Ready if throws remain and in RoundOver otherwise.
C22_CaptureEnds ==
  [][CaptureTick =>
       /\ "capture" \in branch'
       /\ paper' = Null =>
            /\ branch' \cap {"elapsed", "deep"} # {}
            /\ "deep" \in branch' =>
                 (captureElapsed < captureDuration
                    /\ NextPaper.y + 400 > bin.y + bin.height - 1000)
            /\ ~paperCaptured' /\ ~isDragging'
            /\ throwsRemaining > 0 => (isPlaying' /\ ~isGameOver')
            /\ throwsRemaining <= 0 => (isGameOver' /\ ~isPlaying')
       /\ paper' # Null =>
            /\ paperCaptured' /\ captureElapsed' < captureDuration
            /\ paper'.y <= bin.y + bin.height - 1000
            /\ paper'.y = NextPaper.y + 400]_vars

\* C22: the capture animation has cleared a projectile deep in the bin before 500 ms
\* had elapsed, and throws remain
C22_Witness ==
  /\ op = "tick"
  /\ "deep" \in branch
  /\ paper = Null
  /\ ~paperCaptured
  /\ throwsRemaining > 0
  /\ isPlaying

\* C23: wind is randomized once per round: only startGame changes the wind state, and
\* only when enableWind is true; every press, move, release, tick and resize leaves it
\* as it is; with enableWind false the wind stays disabled with speed 0.
C23_WindPerRound ==
  [][/\ wind' # wind => (op' = "startGame" /\ options.enableWind)
     /\ ~options.enableWind => wind' = [enabled |-> FALSE, speed |-> 0]
     /\ wind'.enabled = (wind'.speed # 0)]_vars

\* C23: a throw has come to rest after a flight in the wind drawn at the round start
C23_Witness ==
  /\ options.enableWind
  /\ wind.enabled
  /\ wind.speed # 0
  /\ op = "tick"
  /\ "rest" \in branch

\* C24: input events are applied atomically between ticks: no execution of the gameLoop
\* body (physics step, scoring, resolution) runs while the state change of an input handler
\* is only partly applied; in particular none runs while state.isDragging is still true.
C24_NoTickWhileDragging == "whileDragging" \notin branch

\* a tick whose resolution was a rim or wall bounce
BounceTick == op' = "tick" /\ paper # Null /\ "bounce" \in branch'

\* what every tick with a bounce leaves alone, and the wall and horizontal parts
BounceRest ==
  /\ branch' \cap {"leftRim", "rightRim", "leftWall", "rightWall"} # {}
  /\ "leftRim" \in branch' => paper'.vx < 0
  /\ "rightRim" \in branch' => paper'.vx > 0
  /\ branch' \cap {"leftWall", "rightWall"} # {} =>
       /\ paper'.vx = -RDiv(NextPaper.vx * bounceFactor, 100)
       /\ paper'.vy = NextPaper.vy
  /\ score' = score
  /\ paper'.isFlying
  /\ isPlaying' /\ ~isGameOver' /\ ~paperCaptured'

\* C25 as stated: on contact with a rim bar the vertical velocity changes sign, with its
\* magnitude multiplied by the bounce factor.
C25_RimBounceInverts ==
  [][BounceTick =>
       /\ BounceRest
       /\ branch' \cap {"leftRim", "rightRim"} # {} =>
            paper'.vy = -RDiv(NextPaper.vy * bounceFactor, 100)]_vars

\* C25: on contact with a rim bar checkBinCollision makes the vertical velocity point up
\* (or be zero) with its magnitude multiplied by the bounce factor, whichever way the
\* projectile was moving, and leaves the horizontal velocity pointing away from the side
\* hit (left bar: vx < 0, right bar: vx > 0); on contact with a side wall vx becomes
\* -vx * bounceFactor and vy is unchanged; a tick with such a bounce leaves score
\* unchanged and the phase Flying.
C25_RimBounceUp ==
  [][BounceTick =>
       /\ BounceRest
       /\ branch' \cap {"leftRim", "rightRim"} # {} =>
            /\ paper'.vy = -RDiv(Abs(NextPaper.vy) * bounceFactor, 100)
            /\ paper'.vy <= 0]_vars

\* C25: a tick has bounced a projectile off a rim bar and left it moving up
C25_Witness ==
  /\ op = "tick"
  /\ "bounce" \in branch
  /\ branch \cap {"leftRim", "rightRim"} # {}
  /\ paper # Null
  /\ paper.vy < 0

\* the square of the speed of a projectile
Speed2(p) == p.vx * p.vx + p.vy * p.vy

\* C26 as stated: every rim or wall bounce loses energy: the speed after the contact is
\* not greater than the speed before it.
C26_BounceLosesEnergy == [][BounceTick => Speed2(paper') <= Speed2(NextPaper)]_vars

\* C26: every wall bounce, and every rim bounce of a projectile that arrives with a speed
\* of at least 2 px per tick, loses energy: the speed after the contact is not greater than
\* the speed before it.
C26_FastBounceLosesEnergy ==
  [][BounceTick /\ (branch' \cap {"leftWall", "rightWall"} # {} \/ Speed2(NextPaper) >= 200 * 200)
       => Speed2(paper') <= Speed2(NextPaper)]_vars

\* C26: a projectile has left a rim bar at more than 3 px per tick
C26_Witness ==
  /\ op = "tick"
  /\ "bounce" \in branch
  /\ branch \cap {"leftRim", "rightRim"} # {}
  /\ paper # Null
  /\ Speed2(paper) >= 300 * 300

\* a run of the gameLoop body removed the projectile, by a miss or by the end of a capture
ProjectileRemoved ==
  /\ op' \in {"tick", "release"}
  /\ paper' = Null
  /\ paper # Null \/ "launch" \in branch'
  /\ branch' \cap {"rest", "out", "elapsed", "deep"} # {}

\* C27: when the projectile of the last throw (throwsRemaining = 0) is removed, by a miss
\* or by capture completion, the session is in RoundOver after that same tick, with the
\* score including that throw's result and handed to the round-over offer; the state after
\* the tick accepts no press.
C27_LastThrowEndsRound ==
  [][(ProjectileRemoved /\ throwsRemaining' = 0) =>
       /\ isGameOver' /\ ~isPlaying' /\ ~isDragging' /\ ~paperCaptured'
       /\ score' = score + throwScores' - (IF "launch" \in branch' THEN 0 ELSE throwScores)
       /\ score' >= throwScores'
       /\ [final |-> score'] \in offerTimers'
       /\ \A pos \in PressPoints :
            /\ handleMouseDown(St', pos) = St'
            /\ handleTouchStart(St', pos) = St']_vars

\* C27: the last throw of a round has missed and the round is over with the score so far
C27_Witness ==
  /\ op = "tick"
  /\ "rest" \in branch
  /\ options.maxThrows >= 1
  /\ throwsRemaining = 0
  /\ paper = Null
  /\ isGameOver
  /\ ~isPlaying

\* the power level of a pull from start to end on a canvas of the height given:
\* pull / maxPullDistance below 0.33, below 0.66, or above, with maxPullDistance = height / 2
PullBucket(start, end, h) ==
  LET dx == start.x - end.x
      dy == start.y - end.y
      pull2 == (dx * dx + dy * dy) * 4 * 10000
  IN IF pull2 < 33 * 33 * h * h THEN 1
     ELSE IF pull2 < 66 * 66 * h * h THEN 2
     ELSE 3

\* C28: at every launch the power level passed to calculateThrowVelocity is 1, 2 or 3 and
\* is the bucket of the normalized pull distance between the drag start and the release
\* point, for a mouse release, a mouse leave and a touch end alike.
C28_PowerLevelIsPullBucket ==
  (op = "release" /\ "launch" \in branch) =>
    /\ throwCall.powerLevel \in {1, 2, 3}
    /\ throwCall.powerLevel = PullBucket(throwCall.start, throwCall.end, height)

\* C29: the wind speed stays within the documented range of the wind state, -1.5 to 1.5,
\* in every reachable state.
C29_WindWithinCap == wind.speed >= -150 /\ wind.speed <= 150

\* the throws launched so far in the round
ThrowsMade == options.maxThrows - throwsRemaining

\* C30: with maxThrows >= 1 the score is never negative, never decreases within a round
\* (only startGame takes it back to 0), and is at most the number of throws launched so
\* far: 0 <= score <= maxThrows - throwsRemaining.
C30_ScoreBounded ==
  /\ [](options.maxThrows >= 1 => (score >= 0 /\ score <= ThrowsMade))
  /\ [][options.maxThrows >= 1 =>
          /\ op' # "startGame" => score' >= score
          /\ score' <= score + 1
          /\ op' = "startGame" => score' = 0]_vars

\* C30: every throw of a round has scored, and the score has reached the number of throws
C30_Witness ==
  /\ options.maxThrows >= 2
  /\ throwsRemaining = 0
  /\ score = options.maxThrows
  /\ isGameOver

\* C31: a throw scores only after entering from above: whenever a score is recorded, the
\* projectile was strictly above the rim plane (y < bin.y) on the scoring tick or on some
\* earlier tick of the same throw; a projectile that reaches the opening band from below
\* the rim plane never scores.
C31_ScoresFromAbove ==
  (op \in {"tick", "release"} /\ branch \cap {"crossing", "rimEntry"} # {}) => wasAbove

\* the projectile as endDrag created it from the velocity calculateThrowVelocity returned
LaunchedPaper ==
  [x |-> restingPaper(St).x, y |-> restingPaper(St).y, vx |-> throwCall.velocity.vx,
   vy |-> throwCall.velocity.vy, radius |-> paperRadius, isFlying |-> TRUE]

\* C32: a launched projectile starts above the ground line: the launch origin satisfies
\* origin.y + radius < groundY, so the tick that immediately follows a launch registers no
\* ground collision and leaves the launch velocity to the physics step alone.
C32_LaunchAboveGround ==
  (op = "release" /\ "launch" \in branch) =>
    /\ restingPaper(St).y + paperRadius < groundY(St)
    /\ (flightTicks = 1 /\ paper # Null /\ "ground" \in branch) =>
         /\ paper.vx = updateProjectile(LaunchedPaper, wind).vx
         /\ paper.vy = updateProjectile(LaunchedPaper, wind).vy

\* C33: the tick loop is a single chain: at most one gameLoop callback is pending at any
\* time, and after every operation, whenever a projectile exists, exactly one callback is
\* pending, over every sequence of launches, resets and round ends.
C33_SingleTickChain ==
  /\ Cardinality(pendingFrames) <= 1
  /\ paper # Null => Cardinality(pendingFrames) = 1

\* C33: the second launch of a round has started the loop again, with one pending callback
C33_Witness ==
  /\ op = "release"
  /\ "launch" \in branch
  /\ options.maxThrows >= 2
  /\ throwsRemaining = options.maxThrows - 2
  /\ paper # Null
  /\ pendingFrames = {animationFrameId}

\* the velocity calculateThrowVelocity returns for the release point mirrored at the
\* drag start, start - d instead of start + d
MirroredVelocity ==
  calculateThrowVelocity(throwCall.start,
                         [x |-> 2 * throwCall.start.x - throwCall.end.x,
                          y |-> 2 * throwCall.start.y - throwCall.end.y],
                         throwCall.target, throwCall.paperStart, throwCall.powerLevel)

\* the drag has a component along the direction from paperStart to target
AlongForward == DragVector.dx * ForwardVector.dx + DragVector.dy * ForwardVector.dy # 0

\* C34 as stated: for every drag start, every offset d with |d| >= 15, every target, origin
\* and power level, calculateThrowVelocity returns the same velocity for the release
\* points start + d and start - d.
C34_SlingshotSymmetry == Returned => throwCall.velocity = MirroredVelocity

\* C34: slingshot symmetry for drags that are not perpendicular to the forward direction:
\* for every offset d with |d| >= 15 whose dot product with target - origin is not zero,
\* and every power level, calculateThrowVelocity returns the same velocity for the
\* release points start + d and start - d, and that velocity points forward.
C34_SymmetryAlongForward ==
  (Returned /\ AlongForward) =>
    /\ throwCall.velocity = MirroredVelocity
    /\ throwCall.velocity # [vx |-> 0, vy |-> 0]

\* C34: a pull straight back from a target up and to the right has returned a throw
\* up and to the right
C34_Witness ==
  /\ Returned
  /\ AlongForward
  /\ DragVector = [dx |-> -9, dy |-> 12]
  /\ ForwardVector.dx > 0 /\ ForwardVector.dy < 0
  /\ throwCall.velocity.vx > 0
  /\ throwCall.velocity.vy < 0

\* C35: every execution of setupCanvas registers one more window resize listener and none
\* is ever removed: the number of registered listeners is 1 after init, grows by one with
\* every run of the resize callback (counted up to MaxListeners) and never goes down.
C35_ListenersAccumulate ==
  /\ [](resizeListeners >= 1)
  /\ [][/\ op' = "resize" => resizeListeners' = Min(resizeListeners + 1, MaxListeners)
        /\ op' # "resize" => resizeListeners' = resizeListeners]_vars

\* C35: a run of the resize callback has left more than one resize listener registered
C35_Witness ==
  /\ op = "resize"
  /\ resizeListeners >= 2
  /\ resizeListeners = MaxListeners

\* the lane the bin was assigned
BinLane == lanes(height)[bin.lane]

\* C36: for every outcome of placeBinInLane the rim height bin.y lies within the assigned
\* lane's [minY, maxY], hence within the band from 0.25 h to 0.50 h, strictly above the
\* ground line (0.72 h) and the launch origin (0.8 h); and the bin lies horizontally
\* inside the canvas whenever the canvas is at least as wide as the bin.
C36_RimInsideLane ==
  /\ bin.lane \in {"A", "B", "C"}
  /\ bin.y >= BinLane.minY /\ bin.y <= BinLane.maxY
  /\ bin.y >= 25 * height /\ bin.y <= 50 * height
  /\ bin.y < groundY(St)
  /\ bin.y < restingPaper(St).y
  /\ width * 100 >= bin.width => (bin.x >= 0 /\ bin.x + bin.width <= width * 100)

\* C36: on a canvas with lanes taller than the safety margins the rim was drawn at random,
\* away from the centre of the lane, with the bin pushed to the edge of a canvas as wide
\* as the bin
C36_Witness ==
  /\ op = "resize"
  /\ height = 2000
  /\ width * 100 = bin.width
  /\ bin.y # BinLane.centerY
  /\ bin.x = 0

C38_PhaseFlagsConsistent ==
  /\ ~(isPlaying /\ isGameOver)
  /\ isDragging => (isPlaying /\ paper = Null)
  /\ paper # Null => (isPlaying /\ paper.isFlying)

\* C38: a drag is under way in a round that is playing, with no projectile
C38_Witness ==
  /\ isDragging
  /\ isPlaying
  /\ ~isGameOver
  /\ paper = Null
  /\ op = "move"
  /\ score >= 1

====
